---- MODULE Spec2Model ----
(***************************************************************************)
(* A model of playwrap: the browser helper (working tab, contexts, tabs),  *)
(* the page-type table of tabDataHelper, and the step sequence of          *)
(* stepSequenceHelper.                                                     *)
(*                                                                         *)
(* Spec      the browser helper's steps, run one at a time on the step     *)
(*           sequence of one worker, test after test.                      *)
(* SpecFresh the same with wider bounds, every new context coming without  *)
(*           pages, and the history of the tab last left kept.             *)
(* SpecSequence  addStep, resetStepSequence and the callbacks of the steps *)
(*           as the promise chain schedules them.                          *)
(* SpecHandler   the catch handler of addStep on one thrown value.         *)
(* SpecRequest   the request helper's operations.                          *)
(***************************************************************************)
EXTENDS Integers, Sequences, FiniteSets, TLC

VARIABLES
    browser,        \* browser.contexts(): a sequence of [id, pages], pages = context.pages()
    pageTypes,      \* tabDataHelper's pageTypes: string[][]
    workingTab,     \* browserHelper's workingTab: a Page (its id and its context's id)
    rejected,       \* whether stepSequence is a rejected promise
    phase,          \* "test": inside a test body; "ended": after the fixture's teardown
    last,           \* the operation that ran last and whether it succeeded
    leftTab,        \* history: the tab last left by switchWorkingTab and the type recorded for it
    scope,          \* the behaviour's bounds, the callbacks it passes, whether it keeps leftTab
    steps,          \* the steps added with addStep, in the order they were added
    chain,          \* how often resetStepSequence has replaced stepSequence
    error,          \* the value a step's callback threw
    myError,        \* the stack of the Error that addStep created when the step was added
    caught,         \* what the catch handler of addStep made of error
    requestContexts,                \* the persistent request contexts
    throwAwayContexts,              \* the throw-away request contexts
    requestContextsExtraHeaders,    \* by index, the extra headers of a persistent context
    throwAwayContextsExtraHeaders,  \* by index, the extra headers of a throw-away context
    workingRequestContext,          \* the focused request context
    opening,        \* the calls of openNewContext still awaiting their new context
    extraHeaders    \* what the last getExtraHeaders gave its caller

browserVars == <<browser, pageTypes, workingTab, rejected, phase, last, leftTab, scope>>
sequenceVars == <<steps, chain>>
handlerVars == <<error, myError, caught>>
requestVars == <<requestContexts, throwAwayContexts, requestContextsExtraHeaders,
                 throwAwayContextsExtraHeaders, workingRequestContext, opening, extraHeaders>>
vars == <<browser, pageTypes, workingTab, rejected, phase, last, leftTab, scope,
          steps, chain, error, myError, caught,
          requestContexts, throwAwayContexts, requestContextsExtraHeaders,
          throwAwayContextsExtraHeaders, workingRequestContext, opening, extraHeaders>>

----------------------------------------------------------------------------
(* Bounds *)

\* open contexts at any time, and open pages at any time
MaxContexts == 2
MaxPages == 2
\* the same, for the behaviours in which every new context comes without pages
MaxContextsFresh == 2
MaxPagesFresh == 4
\* steps added, and resets of the step sequence
MaxSteps == 3
MaxResets == 1
\* rows of a stack
MaxStackLen == 3
\* request contexts, persistent and throw-away together
MaxRequestContexts == 4

----------------------------------------------------------------------------
(* Values *)

Undefined == "undefined"

\* workingTab before the first assignment (let workingTab: Page)
NoTab == [page |-> -1, context |-> -1]

PageTypes == {"Blank", "A"}

\* openAuthenticatedContextCb: absent, or returning a new context that has no
\* page yet, or a new context in which one page is already open
Callbacks == {"none", "empty", "withPage"}


----------------------------------------------------------------------------
(* JavaScript arrays *)

\* seq[i] of a dense array held as a sequence: -1 stands for undefined
At(seq, i) == IF i + 1 \in 1 .. Len(seq) THEN seq[i + 1] ELSE -1

\* Array.prototype.indexOf
indexOf(seq, x) ==
    IF \E i \in 1 .. Len(seq) : seq[i] = x
    THEN (CHOOSE i \in 1 .. Len(seq) : seq[i] = x /\ \A j \in 1 .. (i - 1) : seq[j] # x) - 1
    ELSE -1

\* Array.prototype.splice(start, 1)
splice1(seq, start) ==
    LET len == Len(seq)
        from == IF start < 0
                THEN (IF len + start > 0 THEN len + start ELSE 0)
                ELSE (IF start < len THEN start ELSE len)
    IN  IF from < len
        THEN [i \in 1 .. (len - 1) |-> IF i <= from THEN seq[i] ELSE seq[i + 1]]
        ELSE seq

\* a row of pageTypes is an array written by key: a function from the keys set
\* so far to the values; a key never set reads undefined
EmptyRow == << >>
ReadKey(row, k) == IF k \in DOMAIN row THEN row[k] ELSE Undefined
SetKey(row, k, v) == [j \in (DOMAIN row) \cup {k} |-> IF j = k THEN v ELSE row[j]]

----------------------------------------------------------------------------
(* The browser: contexts and pages *)

OpenPages(b) == UNION {{b[i].pages[j] : j \in 1 .. Len(b[i].pages)} : i \in 1 .. Len(b)}
OpenContexts(b) == {b[i].id : i \in 1 .. Len(b)}

Fresh(used) == CHOOSE n \in 0 .. Cardinality(used) : n \notin used /\ \A m \in 0 .. (n - 1) : m \in used

\* context.pages(): a closed context has no pages
pagesOf(b, ctx) ==
    IF \E i \in 1 .. Len(b) : b[i].id = ctx
    THEN b[CHOOSE i \in 1 .. Len(b) : b[i].id = ctx].pages
    ELSE << >>

contextIds(b) == [i \in 1 .. Len(b) |-> b[i].id]

\* browser.newContext(): the new context is the last of browser.contexts()
newContext(w, preOpened) ==
    LET ctx == Fresh(OpenContexts(w.browser) \cup {w.workingTab.context})
        pre == IF preOpened THEN <<Fresh(OpenPages(w.browser) \cup {w.workingTab.page})>> ELSE << >>
    IN  [w EXCEPT !.browser = Append(@, [id |-> ctx, pages |-> pre])]

\* context.newPage(): the new page is the last of context.pages()
newPage(w, ctx) ==
    LET p == Fresh(OpenPages(w.browser) \cup {w.workingTab.page})
    IN  [w EXCEPT !.browser = [i \in 1 .. Len(@) |->
            IF @[i].id = ctx THEN [@[i] EXCEPT !.pages = Append(@, p)] ELSE @[i]]]

\* page.close()
closePage(w, p) ==
    [w EXCEPT !.browser = [i \in 1 .. Len(@) |->
        [@[i] EXCEPT !.pages = SelectSeq(@, LAMBDA q : q # p)]]]

\* for (const page of context.pages()) await page.close(); await context.close()
closeContextAndPages(w, ctx) ==
    [w EXCEPT !.browser = SelectSeq(@, LAMBDA c : c.id # ctx)]

----------------------------------------------------------------------------
(* frameworkDataHelper *)

\* -1 where the code throws "Context [i] does not exist"
getContext(w, contextIndex) == At(contextIds(w.browser), contextIndex)

\* -1 where the code throws (no such context, or no such page)
getPage(w, contextIndex, pageIndex) ==
    IF getContext(w, contextIndex) = -1 THEN -1
    ELSE At(pagesOf(w.browser, getContext(w, contextIndex)), pageIndex)

----------------------------------------------------------------------------
(* tabDataHelper *)

\* whether contextPageTypes(contextIndex) returns (it throws otherwise)
HasRow(pt, contextIndex) == contextIndex + 1 \in 1 .. Len(pt)

contextPageTypes(pt, contextIndex) == pt[contextIndex + 1]

pageType(pt, contextIndex, tabIndex) == ReadKey(contextPageTypes(pt, contextIndex), tabIndex)

initializeContextPageTypes(pt) == Append(pt, EmptyRow)

initializePageType(pt, contextIndex, tabIndex) ==
    [pt EXCEPT ![contextIndex + 1] = SetKey(@, tabIndex, "Blank")]

\* a faulty variant: the rows are left as they are
removeContextPageTypes_keepsRows(pt, contextIndex) == pt

removeContextPageTypes(pt, contextIndex) == splice1(pt, contextIndex)

updatePageType(pt, contextIndex, tabIndex, type) ==
    [pt EXCEPT ![contextIndex + 1] = SetKey(@, tabIndex, type)]

resetPageTypes == << >>

----------------------------------------------------------------------------
(* browserHelper: the private functions *)

workingContext(w) == w.workingTab.context
workingContextIndex(w) == indexOf(contextIds(w.browser), workingContext(w))
workingTabIndex(w) == indexOf(pagesOf(w.browser, workingContext(w)), w.workingTab.page)
latestContextIndex(w) == Len(w.browser) - 1
latestTabIndex(w, contextIndex) == Len(pagesOf(w.browser, getContext(w, contextIndex))) - 1

updateWorkingTab(w, contextIndex, tabIndex) ==
    [w EXCEPT !.workingTab = [page |-> getPage(w, contextIndex, tabIndex),
                              context |-> getContext(w, contextIndex)]]

\* a throw: the step fails with what was done so far left in place
Throw(w) == [w EXCEPT !.ok = FALSE]

----------------------------------------------------------------------------
(* browserHelper: the callbacks of the steps, statement by statement *)

\* a faulty variant: the type of the tab left is not recorded
openNewTabInCurrentContext_keepsType(w, currentPageType) ==
    IF w.workingTab = NoTab THEN Throw(w)
    ELSE IF ~HasRow(w.pageTypes, workingContextIndex(w)) THEN Throw(w)
    ELSE
    LET w2 == newPage(w, workingContext(w))
        w3 == [w2 EXCEPT !.pageTypes = initializePageType(@, workingContextIndex(w2),
                                               latestTabIndex(w2, workingContextIndex(w2)))]
    IN  updateWorkingTab(w3, workingContextIndex(w3),
                         latestTabIndex(w3, workingContextIndex(w3)))

openNewTabInCurrentContext(w, currentPageType) ==
    IF w.workingTab = NoTab THEN Throw(w)
    ELSE IF ~HasRow(w.pageTypes, workingContextIndex(w)) THEN Throw(w)
    ELSE
    LET w1 == [w EXCEPT !.pageTypes = updatePageType(@, workingContextIndex(w),
                                                     workingTabIndex(w), currentPageType)]
        w2 == newPage(w1, workingContext(w1))
    IN  IF ~HasRow(w2.pageTypes, workingContextIndex(w2)) THEN Throw(w2)
        ELSE
        LET w3 == [w2 EXCEPT !.pageTypes = initializePageType(@, workingContextIndex(w2),
                                               latestTabIndex(w2, workingContextIndex(w2)))]
        IN  updateWorkingTab(w3, workingContextIndex(w3),
                             latestTabIndex(w3, workingContextIndex(w3)))

openNewTabInNewContext(w, cb, currentPageType) ==
    IF currentPageType # Undefined
       /\ (w.workingTab = NoTab \/ ~HasRow(w.pageTypes, workingContextIndex(w)))
    THEN Throw(w)
    ELSE
    LET w1 == IF currentPageType # Undefined
              THEN [w EXCEPT !.pageTypes = updatePageType(@, workingContextIndex(w),
                                                          workingTabIndex(w), currentPageType)]
              ELSE w
        w2 == newContext(w1, cb = "withPage")
        w3 == newPage(w2, w2.browser[Len(w2.browser)].id)
        w4 == [w3 EXCEPT !.pageTypes = initializeContextPageTypes(@)]
    IN  IF ~HasRow(w4.pageTypes, latestContextIndex(w4)) THEN Throw(w4)
        ELSE
        LET w5 == [w4 EXCEPT !.pageTypes = initializePageType(@, latestContextIndex(w4), 0)]
        IN  IF getPage(w5, latestContextIndex(w5), 0) = -1 THEN Throw(w5)
            ELSE updateWorkingTab(w5, latestContextIndex(w5), 0)

\* a faulty variant: the type of the tab left is recorded before the target's type is verified
switchWorkingTab_recordsFirst(w, contextIndex, tabIndex, currentPageType, nextPageType) ==
    IF ~(contextIndex <= latestContextIndex(w)) THEN Throw(w)
    ELSE IF getContext(w, contextIndex) = -1 THEN Throw(w)
    ELSE IF ~(tabIndex <= latestTabIndex(w, contextIndex)) THEN Throw(w)
    ELSE IF w.workingTab = NoTab THEN Throw(w)
    ELSE IF contextIndex = workingContextIndex(w) /\ tabIndex = workingTabIndex(w) THEN Throw(w)
    ELSE IF ~HasRow(w.pageTypes, workingContextIndex(w)) THEN Throw(w)
    ELSE
    LET w1 == [w EXCEPT !.pageTypes = updatePageType(@, workingContextIndex(w),
                                                     workingTabIndex(w), currentPageType)]
    IN  IF ~HasRow(w1.pageTypes, contextIndex) THEN Throw(w1)
        ELSE IF pageType(w1.pageTypes, contextIndex, tabIndex) # nextPageType THEN Throw(w1)
        ELSE IF getPage(w1, contextIndex, tabIndex) = -1 THEN Throw(w1)
        ELSE updateWorkingTab(w1, contextIndex, tabIndex)

switchWorkingTab(w, contextIndex, tabIndex, currentPageType, nextPageType) ==
    IF ~(contextIndex <= latestContextIndex(w)) THEN Throw(w)
    ELSE IF getContext(w, contextIndex) = -1 THEN Throw(w)
    ELSE IF ~(tabIndex <= latestTabIndex(w, contextIndex)) THEN Throw(w)
    ELSE IF w.workingTab = NoTab THEN Throw(w)
    ELSE IF contextIndex = workingContextIndex(w) /\ tabIndex = workingTabIndex(w) THEN Throw(w)
    ELSE IF ~HasRow(w.pageTypes, contextIndex) THEN Throw(w)
    ELSE IF pageType(w.pageTypes, contextIndex, tabIndex) # nextPageType THEN Throw(w)
    ELSE IF ~HasRow(w.pageTypes, workingContextIndex(w)) THEN Throw(w)
    ELSE
    LET w1 == [w EXCEPT !.pageTypes = updatePageType(@, workingContextIndex(w),
                                                     workingTabIndex(w), currentPageType)]
    IN  IF getPage(w1, contextIndex, tabIndex) = -1 THEN Throw(w1)
        ELSE updateWorkingTab(w1, contextIndex, tabIndex)

\* a faulty variant: the working context is refused only after the pages are closed
closeContext_closesFirst(w, contextIndex) ==
    IF getContext(w, contextIndex) = -1 THEN Throw(w)
    ELSE IF w.workingTab = NoTab THEN Throw(w)
    ELSE
    LET w1 == closeContextAndPages(w, getContext(w, contextIndex))
    IN  IF contextIndex = workingContextIndex(w) THEN Throw(w1)
        ELSE [w1 EXCEPT !.pageTypes = removeContextPageTypes(@, contextIndex)]

\* a faulty variant: the working context is not refused
closeContext_anyContext(w, contextIndex) ==
    IF getContext(w, contextIndex) = -1 THEN Throw(w)
    ELSE IF w.workingTab = NoTab THEN Throw(w)
    ELSE
    LET w1 == closeContextAndPages(w, getContext(w, contextIndex))
    IN  [w1 EXCEPT !.pageTypes = removeContextPageTypes(@, contextIndex)]

closeContext(w, contextIndex) ==
    IF getContext(w, contextIndex) = -1 THEN Throw(w)
    ELSE IF w.workingTab = NoTab THEN Throw(w)
    ELSE IF contextIndex = workingContextIndex(w) THEN Throw(w)
    ELSE
    LET w1 == closeContextAndPages(w, getContext(w, contextIndex))
    IN  [w1 EXCEPT !.pageTypes = removeContextPageTypes(@, contextIndex)]

\* a faulty variant: the working tab is not refused
closeTab_anyTab(w, contextIndex, tabIndex) ==
    IF getPage(w, contextIndex, tabIndex) = -1 THEN Throw(w)
    ELSE IF w.workingTab = NoTab THEN Throw(w)
    ELSE
    LET w1 == closePage(w, getPage(w, contextIndex, tabIndex))
    IN  [w1 EXCEPT !.pageTypes = removeContextPageTypes(@, contextIndex)]

closeTab(w, contextIndex, tabIndex) ==
    IF getPage(w, contextIndex, tabIndex) = -1 THEN Throw(w)
    ELSE IF w.workingTab = NoTab THEN Throw(w)
    ELSE IF contextIndex = workingContextIndex(w) /\ tabIndex = workingTabIndex(w) THEN Throw(w)
    ELSE
    LET w1 == closePage(w, getPage(w, contextIndex, tabIndex))
    IN  [w1 EXCEPT !.pageTypes = removeContextPageTypes(@, contextIndex)]

closeAllContexts(w) == [w EXCEPT !.browser = << >>]

----------------------------------------------------------------------------------------------------------------------------------------------
(* Page and context objects are named by their place: after every step the  *)
(* open contexts are renamed 0, 1, .. in the order of browser.contexts()    *)
(* and the open pages 0, 1, .. in the order of the contexts' pages(); -2    *)
(* names a closed page or context that workingTab still refers to.          *)

RECURSIVE Flatten(_)
Flatten(b) == IF b = << >> THEN << >> ELSE b[1].pages \o Flatten(Tail(b))

RECURSIVE Longest(_)
Longest(b) ==
    IF b = << >> THEN << >>
    ELSE IF Len(b[1].pages) >= Len(Longest(Tail(b))) THEN b[1].pages ELSE Longest(Tail(b))

Before(b, i) == Len(Flatten(SubSeq(b, 1, i - 1)))

RenamePage(b, p) == IF p = -1 THEN -1 ELSE IF p \in OpenPages(b) THEN indexOf(Flatten(b), p) ELSE -2
RenameContext(b, c) == IF c = -1 THEN -1 ELSE IF c \in OpenContexts(b) THEN indexOf(contextIds(b), c) ELSE -2

Renamed(b) ==
    [i \in 1 .. Len(b) |->
        [id |-> i - 1, pages |-> [j \in 1 .. Len(b[i].pages) |-> Before(b, i) + j - 1]]]

----------------------------------------------------------------------------
(* The steps on the step sequence *)

\* the indexes a step is given: -1, the indexes in use, and one past them
ContextIndexes == -1 .. Len(browser)
TabIndexes == -1 .. Len(Longest(browser))

World == [browser |-> browser, pageTypes |-> pageTypes, workingTab |-> workingTab, ok |-> TRUE]

NoLeftTab == [page |-> -1, type |-> Undefined]

\* a step added with addStep runs its callback when the sequence is not
\* rejected; a callback that throws leaves the sequence rejected
Run(op, result, left) ==
    \E w \in {result} :
        /\ phase = "test"
        /\ ~rejected
        /\ browser' = Renamed(w.browser)
        /\ pageTypes' = w.pageTypes
        /\ workingTab' = [page |-> RenamePage(w.browser, w.workingTab.page),
                          context |-> RenameContext(w.browser, w.workingTab.context)]
        /\ rejected' = ~w.ok
        /\ last' = [op |-> op, ok |-> w.ok]
        /\ leftTab' = IF scope.history /\ left.page \in OpenPages(w.browser) \ {w.workingTab.page}
                      THEN [left EXCEPT !.page = RenamePage(w.browser, @)]
                      ELSE NoLeftTab
        /\ UNCHANGED <<phase, scope, sequenceVars, handlerVars, requestVars>>

OpenNewTabInCurrentContextStep(cur) ==
    /\ Len(Flatten(browser)) < scope.pages
    /\ Run("openNewTabInCurrentContext", openNewTabInCurrentContext(World, cur), leftTab)

OpenNewTabInNewContextStep(cb, cur) ==
    /\ Len(browser) < scope.contexts
    /\ Len(Flatten(browser)) + (IF cb = "withPage" THEN 1 ELSE 0) < scope.pages
    /\ Run("openNewTabInNewContext", openNewTabInNewContext(World, cb, cur), leftTab)

SwitchWorkingTabStep(c, t, cur, next) ==
    \E w \in {switchWorkingTab(World, c, t, cur, next)} :
        Run("switchWorkingTab", w,
            IF w.ok THEN [page |-> workingTab.page, type |-> cur] ELSE leftTab)

CloseContextStep(c) == Run("closeContext", closeContext(World, c), leftTab)

CloseTabStep(c, t) == Run("closeTab", closeTab(World, c, t), leftTab)

OpenNewTabInCurrentContext == \E cur \in PageTypes : OpenNewTabInCurrentContextStep(cur)

OpenNewTabInNewContext ==
    \E cb \in scope.callbacks, cur \in PageTypes \cup {Undefined} : OpenNewTabInNewContextStep(cb, cur)

SwitchWorkingTab ==
    \E c \in ContextIndexes, t \in TabIndexes, cur \in PageTypes, next \in PageTypes :
        SwitchWorkingTabStep(c, t, cur, next)

CloseContext == \E c \in ContextIndexes : CloseContextStep(c)

CloseTab == \E c \in ContextIndexes, t \in TabIndexes : CloseTabStep(c, t)

\* the auto fixture after use(): browserHelper.closeAllContexts()
TestEnds ==
    /\ phase = "test"
    /\ browser' = closeAllContexts(World).browser
    /\ workingTab' = [page |-> RenamePage(<< >>, workingTab.page),
                      context |-> RenameContext(<< >>, workingTab.context)]
    /\ phase' = "ended"
    /\ last' = [op |-> "closeAllContexts", ok |-> TRUE]
    /\ leftTab' = NoLeftTab
    /\ UNCHANGED <<pageTypes, rejected, scope, sequenceVars, handlerVars, requestVars>>

\* the auto fixture before use(), for the next test of the worker
initTestData ==
    /\ phase = "ended"
    /\ pageTypes' = resetPageTypes
    /\ rejected' = FALSE
    /\ phase' = "test"
    /\ last' = [op |-> "initTestData", ok |-> TRUE]
    /\ UNCHANGED <<browser, workingTab, leftTab, scope, sequenceVars, handlerVars, requestVars>>

Start(contexts, pages, callbacks, history) ==
    /\ scope = [contexts |-> contexts, pages |-> pages, callbacks |-> callbacks, history |-> history]
    /\ browser = << >>
    /\ pageTypes = << >>
    /\ workingTab = NoTab
    /\ rejected = FALSE
    /\ phase = "test"
    /\ last = [op |-> "initTestData", ok |-> TRUE]
    /\ leftTab = NoLeftTab

Next ==
    \/ OpenNewTabInCurrentContext
    \/ OpenNewTabInNewContext
    \/ SwitchWorkingTab
    \/ CloseContext
    \/ CloseTab
    \/ TestEnds
    \/ initTestData

----------------------------------------------------------------------------
(* stepSequenceHelper: stacks *)

\* a stack is the sequence of its rows (error.stack.split("\n"))
TestFileRows == {"a.spec.ts:5:3", "a.spec.ts:9:3"}
ModuleRows == {"stepSequenceHelper.ts:98:13", "stepSequenceHelper.ts:33:26",
               "stepSequenceHelper.ts:108:37"}
OtherRows == {"Error: boom", "page.ts:7:9"}

\* testFilePath.test(row)
IsTestFileRow(row) == row \in TestFileRows
\* row.includes(import.meta.url)
IsModuleRow(row) == row \in ModuleRows

Includes(stack, row) == \E i \in 1 .. Len(stack) : stack[i] = row

\* String.prototype.replace with a string pattern: the first occurrence only
replace(stack, row, by) ==
    [i \in 1 .. Len(stack) |->
        IF stack[i] = row /\ \A j \in 1 .. (i - 1) : stack[j] # row THEN by ELSE stack[i]]

testCallRows(stack) == SelectSeq(stack, IsTestFileRow)

\* whether getTestCallRowInStack throws: no row, or several rows, match
getTestCallRowInStackThrows(stack) == Len(testCallRows(stack)) # 1

getTestCallRowInStack(stack) == testCallRows(stack)[1]

\* values thrown: id 0 is the Error made by getTestCallRowInStack, id -1 no value
NoError == [id |-> -1, isError |-> FALSE, stack |-> << >>]
FoundRowsError ==
    [id |-> 0, isError |-> TRUE,
     stack |-> <<"Error: Found rows", "stepSequenceHelper.ts:33:26", "stepSequenceHelper.ts:108:37">>]

Rejected(e) == [settled |-> "rejected", error |-> e]
Fulfilled == [settled |-> "fulfilled", error |-> NoError]

\* the row put in the place of the await row, and the module's rows dropped
rewrite(stack, myStack) ==
    SelectSeq(replace(stack, getTestCallRowInStack(stack), getTestCallRowInStack(myStack)),
              LAMBDA row : ~IsModuleRow(row))

\* .catch((error) => { ... }) of addStep: what the promise it returns settles to
catch(e, myStack) ==
    IF ~e.isError THEN Fulfilled
    ELSE IF /\ e.stack # << >>
            /\ myStack # << >>
            /\ \E i \in 1 .. Len(e.stack) : IsModuleRow(e.stack[i])
            /\ \E i \in 1 .. Len(myStack) : IsTestFileRow(myStack[i])
    THEN IF getTestCallRowInStackThrows(myStack) THEN Rejected(FoundRowsError)
         ELSE IF getTestCallRowInStackThrows(e.stack) THEN Rejected(FoundRowsError)
         ELSE Rejected([e EXCEPT !.stack = rewrite(e.stack, myStack)])
    ELSE Rejected(e)

----------------------------------------------------------------------------
(* stepSequenceHelper: the step sequence *)

\* the step added before step i on the same chain: 0 when i is the chain's first
Previous(i) ==
    IF \E j \in 1 .. (i - 1) : steps[j].chain = steps[i].chain
    THEN CHOOSE j \in 1 .. (i - 1) :
            /\ steps[j].chain = steps[i].chain
            /\ \A k \in (j + 1) .. (i - 1) : steps[k].chain # steps[i].chain
    ELSE 0

\* the promise stepSequence held when step i was added
stepSequenceBefore(i) ==
    IF Previous(i) = 0 THEN Fulfilled
    ELSE [settled |-> steps[Previous(i)].promise, error |-> steps[Previous(i)].error]

\* a faulty variant: the step is called without waiting for the sequence
thenRuns_atOnce(promise) == TRUE

\* stepSequence.then(step): step is called once the sequence is fulfilled
thenRuns(promise) == promise.settled = "fulfilled"

\* the values the callbacks throw and the stacks addStep captures
Thrown ==
    {[isError |-> TRUE, stack |-> <<"Error: boom", "stepSequenceHelper.ts:98:13", "a.spec.ts:9:3">>],
     [isError |-> TRUE, stack |-> <<"Error: boom", "page.ts:7:9", "stepSequenceHelper.ts:98:13">>],
     [isError |-> FALSE, stack |-> << >>]}
MyErrors == {<<"Error: boom", "a.spec.ts:5:3">>, <<"Error: boom", "page.ts:7:9">>}

addStep ==
    \E myStack \in MyErrors :
        /\ Len(steps) < MaxSteps
        /\ steps' = Append(steps, [chain |-> chain, myStack |-> myStack, cb |-> "waiting",
                                   promise |-> "pending", error |-> NoError, threw |-> NoError])
        /\ UNCHANGED <<chain, browserVars, handlerVars, requestVars>>

resetStepSequence ==
    /\ chain < MaxResets
    /\ chain' = chain + 1
    /\ UNCHANGED <<steps, browserVars, handlerVars, requestVars>>

\* the sequence before step i is fulfilled: test.step calls the callback
CallbackStarts ==
    \E i \in 1 .. Len(steps) :
        /\ steps[i].cb = "waiting"
        /\ thenRuns(stepSequenceBefore(i))
        /\ steps' = [steps EXCEPT ![i].cb = "running"]
        /\ UNCHANGED <<chain, browserVars, handlerVars, requestVars>>

\* the callback, and the promise it returned, completed
CallbackReturns ==
    \E i \in 1 .. Len(steps) :
        /\ steps[i].cb = "running"
        /\ steps' = [steps EXCEPT ![i].cb = "finished", ![i].promise = "fulfilled"]
        /\ UNCHANGED <<chain, browserVars, handlerVars, requestVars>>

\* the callback threw, or the promise it returned rejected: the catch handler runs
CallbackThrows ==
    \E i \in 1 .. Len(steps), v \in Thrown :
        LET e == [id |-> i, isError |-> v.isError, stack |-> v.stack]
            r == catch(e, steps[i].myStack)
        IN  /\ steps[i].cb = "running"
            /\ steps' = [steps EXCEPT ![i].cb = "finished", ![i].threw = e,
                                      ![i].promise = r.settled, ![i].error = r.error]
            /\ UNCHANGED <<chain, browserVars, handlerVars, requestVars>>

\* the sequence before step i is rejected: step is not called, the catch handler runs
RejectionPasses ==
    \E i \in 1 .. Len(steps) :
        LET r == catch(stepSequenceBefore(i).error, steps[i].myStack)
        IN  /\ steps[i].cb = "waiting"
            /\ stepSequenceBefore(i).settled = "rejected"
            /\ steps' = [steps EXCEPT ![i].cb = "never",
                                      ![i].promise = r.settled, ![i].error = r.error]
            /\ UNCHANGED <<chain, browserVars, handlerVars, requestVars>>

NoSteps == steps = << >> /\ chain = 0

NextSequence ==
    \/ addStep
    \/ resetStepSequence
    \/ CallbackStarts
    \/ CallbackReturns
    \/ CallbackThrows
    \/ RejectionPasses

----------------------------------------------------------------------------
(* stepSequenceHelper: the catch handler alone *)

RECURSIVE StacksOver(_, _)
StacksOver(rows, n) ==
    IF n = 0 THEN {<< >>}
    ELSE StacksOver(rows, n - 1)
         \cup {Append(st, row) : st \in {x \in StacksOver(rows, n - 1) : Len(x) = n - 1}, row \in rows}

NothingCaught == [settled |-> "pending", error |-> NoError]
NothingThrown == error = NoError /\ myError = << >> /\ caught = NothingCaught

Catch ==
    /\ caught = NothingCaught
    /\ caught' = catch(error, myError)
    /\ UNCHANGED <<error, myError, browserVars, sequenceVars, requestVars>>

AnyThrown ==
    /\ error \in [id : {1}, isError : BOOLEAN,
                  stack : StacksOver({"Error: boom", "page.ts:7:9", "a.spec.ts:9:3",
                                      "stepSequenceHelper.ts:98:13"}, MaxStackLen)]
    /\ myError \in StacksOver({"page.ts:7:9", "a.spec.ts:5:3", "a.spec.ts:9:3"}, MaxStackLen - 1)
    /\ caught = NothingCaught

----------------------------------------------------------------------------
(* requestHelper *)

\* the request helper's state as the functions below pass it along
Requests ==
    [requestContexts |-> requestContexts,
     throwAwayContexts |-> throwAwayContexts,
     requestContextsExtraHeaders |-> requestContextsExtraHeaders,
     throwAwayContextsExtraHeaders |-> throwAwayContextsExtraHeaders,
     workingRequestContext |-> workingRequestContext,
     ok |-> TRUE]

\* the callbacks given to openNewContext: none, one that makes a new context,
\* one that returns a context it returned before
RequestCallbacks == {"none", "new", "same"}
HeaderKeys == {"Authorization"}
HeaderValues == {"token"}

\* every APIRequestContext made so far
RequestContextsMade(r) ==
    {r.requestContexts[i] : i \in 1 .. Len(r.requestContexts)}
    \cup {r.throwAwayContexts[i] : i \in 1 .. Len(r.throwAwayContexts)}

\* apiRequest().newContext()
newRequestContext(r) == Fresh(RequestContextsMade(r))

workingRequestContextIndex(r) == indexOf(r.requestContexts, r.workingRequestContext)

updateWorkingRequestContext(r, requestContextIndex) ==
    IF At(r.requestContexts, requestContextIndex) = -1 THEN Throw(r)
    ELSE [r EXCEPT !.workingRequestContext = At(r.requestContexts, requestContextIndex)]

\* a Map is the set of its <<key, value>> entries; Map.prototype.set
MapSet(map, key, value) == {entry \in map : entry[1] # key} \cup {<<key, value>>}

\* array[index] ??= new Map(); array[index].set(key, value)
SetHeader(array, index, key, value) ==
    SetKey(array, index, MapSet(IF index \in DOMAIN array THEN array[index] ELSE {}, key, value))

putExtraHeader(r, key, value) ==
    IF workingRequestContextIndex(r) >= 0
    THEN [r EXCEPT !.requestContextsExtraHeaders =
                SetHeader(@, workingRequestContextIndex(r), key, value)]
    ELSE IF indexOf(r.throwAwayContexts, r.workingRequestContext) >= 0
    THEN [r EXCEPT !.throwAwayContextsExtraHeaders =
                SetHeader(@, indexOf(r.throwAwayContexts, r.workingRequestContext), key, value)]
    ELSE r

\* what getExtraHeaders gives: undefined, the entries, or an Error thrown
NoExtraHeaders == [outcome |-> "undefined", entries |-> {}]

\* !extraHeaders || extraHeaders.size == 0 ? undefined : Object.fromEntries(extraHeaders)
FromEntries(array, index) ==
    IF index \notin DOMAIN array \/ array[index] = {} THEN NoExtraHeaders
    ELSE [outcome |-> "headers", entries |-> array[index]]

getExtraHeaders(r) ==
    IF workingRequestContextIndex(r) >= 0
    THEN FromEntries(r.requestContextsExtraHeaders, workingRequestContextIndex(r))
    ELSE IF indexOf(r.throwAwayContexts, r.workingRequestContext) >= 0
    THEN FromEntries(r.throwAwayContextsExtraHeaders,
                     indexOf(r.throwAwayContexts, r.workingRequestContext))
    ELSE [outcome |-> "throws", entries |-> {}]

\* a faulty variant: the new context is put first
openNewContext_first(r, context) ==
    updateWorkingRequestContext([r EXCEPT !.requestContexts = <<context>> \o @], 0)

\* openNewContext from the point where the new context has been awaited
openNewContext(r, context) ==
    LET r1 == [r EXCEPT !.requestContexts = Append(@, context)]
    IN  updateWorkingRequestContext(r1, Len(r1.requestContexts) - 1)

openNewThrowAwayContext(r) ==
    LET context == newRequestContext(r)
    IN  [r EXCEPT !.throwAwayContexts = Append(@, context),
                  !.workingRequestContext = context]

switchWorkingContext(r, requestContextIndex) ==
    IF ~(requestContextIndex < Len(r.requestContexts)) THEN Throw(r)
    ELSE IF requestContextIndex = workingRequestContextIndex(r) THEN Throw(r)
    ELSE updateWorkingRequestContext(r, requestContextIndex)

\* the request helper's state becomes r
Becomes(r) ==
    /\ requestContexts' = r.requestContexts
    /\ throwAwayContexts' = r.throwAwayContexts
    /\ requestContextsExtraHeaders' = r.requestContextsExtraHeaders
    /\ throwAwayContextsExtraHeaders' = r.throwAwayContextsExtraHeaders
    /\ workingRequestContext' = r.workingRequestContext

RequestContextIndexes == -1 .. Len(requestContexts)

\* openNewContext is called: it awaits the callback, or apiRequest().newContext()
OpenNewContextCalled ==
    \E cb \in RequestCallbacks :
        /\ Len(requestContexts) + Len(throwAwayContexts) + Len(opening) < MaxRequestContexts
        /\ opening' = Append(opening, cb)
        /\ UNCHANGED <<requestContexts, throwAwayContexts, requestContextsExtraHeaders,
                       throwAwayContextsExtraHeaders, workingRequestContext, extraHeaders,
                       browserVars, sequenceVars, handlerVars>>

\* the context awaited by the k-th pending call is there: the call goes on
OpenNewContextReturns(k, context) ==
    /\ k \in 1 .. Len(opening)
    /\ IF opening[k] = "same"
       THEN context \in RequestContextsMade(Requests)
       ELSE context = newRequestContext(Requests)
    /\ Becomes(openNewContext(Requests, context))
    /\ opening' = [i \in 1 .. (Len(opening) - 1) |-> IF i < k THEN opening[i] ELSE opening[i + 1]]
    /\ UNCHANGED <<extraHeaders, browserVars, sequenceVars, handlerVars>>

OpenNewContext ==
    \E k \in 1 .. Len(opening), context \in 0 .. MaxRequestContexts :
        OpenNewContextReturns(k, context)

OpenNewThrowAwayContext ==
    /\ Len(requestContexts) + Len(throwAwayContexts) + Len(opening) < MaxRequestContexts
    /\ Becomes(openNewThrowAwayContext(Requests))
    /\ UNCHANGED <<opening, extraHeaders, browserVars, sequenceVars, handlerVars>>

\* a switch that fails throws before it changes anything
SwitchWorkingContextStep(i) ==
    /\ Becomes(switchWorkingContext(Requests, i))
    /\ UNCHANGED <<opening, extraHeaders, browserVars, sequenceVars, handlerVars>>

SwitchWorkingContext == \E i \in RequestContextIndexes : SwitchWorkingContextStep(i)

PutExtraHeader ==
    \E key \in HeaderKeys, value \in HeaderValues :
        /\ Becomes(putExtraHeader(Requests, key, value))
        /\ UNCHANGED <<opening, extraHeaders, browserVars, sequenceVars, handlerVars>>

GetExtraHeaders ==
    /\ extraHeaders' = getExtraHeaders(Requests)
    /\ UNCHANGED <<requestContexts, throwAwayContexts, requestContextsExtraHeaders,
                   throwAwayContextsExtraHeaders, workingRequestContext, opening,
                   browserVars, sequenceVars, handlerVars>>

NoRequests ==
    /\ requestContexts = << >>
    /\ throwAwayContexts = << >>
    /\ requestContextsExtraHeaders = << >>
    /\ throwAwayContextsExtraHeaders = << >>
    /\ workingRequestContext = -1
    /\ opening = << >>
    /\ extraHeaders = NoExtraHeaders

NextRequest ==
    \/ OpenNewContextCalled
    \/ OpenNewContext
    \/ OpenNewThrowAwayContext
    \/ SwitchWorkingContext
    \/ PutExtraHeader
    \/ GetExtraHeaders

Init == Start(MaxContexts, MaxPages, Callbacks, FALSE) /\ NoSteps /\ NothingThrown /\ NoRequests
InitFresh ==
    Start(MaxContextsFresh, MaxPagesFresh, Callbacks \ {"withPage"}, TRUE)
    /\ NoSteps /\ NothingThrown /\ NoRequests

Idle == Start(0, 0, {}, FALSE)

Spec == Init /\ [][Next]_vars
SpecFresh == InitFresh /\ [][Next]_vars
InitSequence == Idle /\ NoSteps /\ NothingThrown /\ NoRequests
InitHandler == Idle /\ NoSteps /\ AnyThrown /\ NoRequests
InitRequest == Idle /\ NoSteps /\ NothingThrown /\ NoRequests
SpecSequence == InitSequence /\ [][NextSequence]_vars
SpecHandler == InitHandler /\ [][Catch]_vars
SpecRequest == InitRequest /\ [][NextRequest]_vars

----------------------------------------------------------------------------
(* What the claims speak of *)

\* the page type recorded for the tab at [c, t]; undefined when none is
Recorded(pt, c, t) == IF HasRow(pt, c) THEN ReadKey(pt[c + 1], t) ELSE Undefined

IsContextIndex(c) == c \in 0 .. (Len(browser) - 1)
IsTabIndex(c, t) == IsContextIndex(c) /\ t \in 0 .. (Len(browser[c + 1].pages) - 1)
IsWorkingTabAt(c, t) == IsTabIndex(c, t) /\ browser[c + 1].pages[t + 1] = workingTab.page
IsWorkingContextAt(c) == IsContextIndex(c) /\ browser[c + 1].id = workingTab.context

\* every open tab but the one at [c, t] has after the step the type it had
OtherTabsKeepType(c, t) ==
    \A c2 \in 0 .. (Len(browser) - 1) : \A t2 \in 0 .. (Len(browser[c2 + 1].pages) - 1) :
        <<c2, t2>> # <<c, t>> => Recorded(pageTypes', c2, t2) = Recorded(pageTypes, c2, t2)

----------------------------------------------------------------------------
(* What the claims on the step sequence speak of *)

SameChain(i, j) == steps[i].chain = steps[j].chain
Running(i) == steps[i].cb = "running"
Started(i) == steps[i].cb \in {"running", "finished"}

\* of two steps of one chain the later has not started before the earlier completed
InOrder ==
    \A i \in 1 .. Len(steps) : \A j \in (i + 1) .. Len(steps) :
        (SameChain(i, j) /\ Started(j)) => steps[i].cb = "finished"

\* the callback of step i failed with an Error
Failed(i) == steps[i].threw.isError

\* the steps added since the last resetStepSequence
OnSequence == {i \in 1 .. Len(steps) : steps[i].chain = chain}

\* get stepSequence(): the promise of the last step added since the last reset
stepSequence ==
    IF OnSequence = {} THEN Fulfilled
    ELSE LET i == CHOOSE i \in OnSequence : \A j \in OnSequence : j <= i
         IN  [settled |-> steps[i].promise, error |-> steps[i].error]

----------------------------------------------------------------------------
(* C1: of two steps added to the same chain the later one's callback does   *)
(* not start until the earlier one's has completed, and no two callbacks    *)
(* are in progress at the same time.                                        *)

C1_OneAtATime ==
    /\ InOrder
    /\ \A i \in 1 .. Len(steps) : \A j \in 1 .. Len(steps) :
        (Running(i) /\ Running(j)) => i = j

\* C1, amended: no two callbacks of the same chain are in progress at the
\* same time; a step added after resetStepSequence may start while a step
\* added before it is still running.
C1_OneAtATimeOnAChain ==
    /\ InOrder
    /\ \A i \in 1 .. Len(steps) : \A j \in 1 .. Len(steps) :
        (SameChain(i, j) /\ Running(i) /\ Running(j)) => i = j

\* a second step of a chain runs, the first having completed
C1_Witness ==
    \E i \in 1 .. Len(steps) : \E j \in (i + 1) .. Len(steps) :
        SameChain(i, j) /\ steps[i].cb = "finished" /\ Running(j)

----------------------------------------------------------------------------
(* C2: once a step's callback failed with an Error its promise is rejected, *)
(* no step added after it to the same chain ever starts its callback, and   *)
(* the step sequence, once settled, is rejected with the error of the first *)
(* failed step; a step added after resetStepSequence is kept from running   *)
(* only by a failed step of its own chain.                                  *)

C2_FailedStepRejects ==
    /\ \A i \in 1 .. Len(steps) :
        Failed(i) =>
            /\ steps[i].promise = "rejected"
            /\ \A j \in (i + 1) .. Len(steps) : SameChain(i, j) => ~Started(j)
    /\ \A i \in OnSequence :
        (Failed(i) /\ (\A j \in OnSequence : Failed(j) => i <= j) /\ stepSequence.settled # "pending")
            => stepSequence = Rejected([steps[i].threw EXCEPT !.stack = stepSequence.error.stack])
    /\ \A j \in 1 .. Len(steps) :
        steps[j].cb = "never" => \E i \in 1 .. (j - 1) : SameChain(i, j) /\ Failed(i)
    /\ OnSequence = {} => stepSequence = Fulfilled

----------------------------------------------------------------------------
(* C3: when the value thrown is an Error whose stack has rows of the        *)
(* step-sequence module and the stack captured by addStep has exactly one   *)
(* test-file row, the error that propagates is that Error, no row of its    *)
(* stack is a row of the module, the addStep row stands in the place of the *)
(* await row, and the other rows are in the order they were in.             *)

OtherRowsOf(stack) == SelectSeq(stack, LAMBDA row : ~IsModuleRow(row) /\ ~IsTestFileRow(row))

C3_StackRewritten ==
    ( /\ caught # NothingCaught
      /\ error.isError
      /\ \E i \in 1 .. Len(error.stack) : IsModuleRow(error.stack[i])
      /\ Len(testCallRows(myError)) = 1 )
    => /\ caught.settled = "rejected"
       /\ caught.error.id = error.id
       /\ \A i \in 1 .. Len(caught.error.stack) : ~IsModuleRow(caught.error.stack[i])
       /\ (\E i \in 1 .. Len(error.stack) : IsTestFileRow(error.stack[i]))
            => Includes(caught.error.stack, testCallRows(myError)[1])
       /\ OtherRowsOf(caught.error.stack) = OtherRowsOf(error.stack)

----------------------------------------------------------------------------
(* C4: a successful switchWorkingTab(c, t, currentPageType, nextPageType)    *)
(* found nextPageType recorded for [c, t]; after it the working tab is the   *)
(* tab at [c, t], currentPageType is recorded for the tab left, every other  *)
(* tab keeps its type; and a tab left with type X recorded is switched back  *)
(* to only with X as the expected type.                                      *)

SwitchEffect(c, t, cur, next) ==
    /\ Recorded(pageTypes, c, t) = next
    /\ IsTabIndex(c, t)
    /\ workingTab'.page = browser'[c + 1].pages[t + 1]
    /\ Recorded(pageTypes', workingContextIndex(World), workingTabIndex(World)) = cur
    /\ OtherTabsKeepType(workingContextIndex(World), workingTabIndex(World))

SwitchBackExpectsTypeLeft(c, t, next) ==
    (leftTab # NoLeftTab /\ leftTab.page = getPage(World, c, t)) => next = leftTab.type

Ran(op, ok) == last' = [op |-> op, ok |-> ok] /\ ~rejected /\ phase = "test"

C4_SwitchWorkingTab ==
    [][Ran("switchWorkingTab", TRUE) =>
        \A c \in ContextIndexes, t \in TabIndexes, cur \in PageTypes, next \in PageTypes :
            SwitchWorkingTabStep(c, t, cur, next)
                => (SwitchEffect(c, t, cur, next) /\ SwitchBackExpectsTypeLeft(c, t, next))]_vars

\* the part of C4 about the step alone
C4_SwitchEffectAlone ==
    [][Ran("switchWorkingTab", TRUE) =>
        \A c \in ContextIndexes, t \in TabIndexes, cur \in PageTypes, next \in PageTypes :
            SwitchWorkingTabStep(c, t, cur, next) => SwitchEffect(c, t, cur, next)]_vars

----------------------------------------------------------------------------
(* C5: switchWorkingTab(c, t, currentPageType, nextPageType) fails when c is *)
(* not the index of an open context, t not the index of an open tab of it,   *)
(* [c, t] the working tab, or the type recorded for [c, t] not nextPageType; *)
(* the failure leaves the working tab and the page-type table as they were.  *)

SwitchMustFail(c, t, next) ==
    \/ ~IsContextIndex(c)
    \/ ~IsTabIndex(c, t)
    \/ IsWorkingTabAt(c, t)
    \/ Recorded(pageTypes, c, t) # next

\* a step that ran succeeded only if none of the four held, and a step that
\* failed changed nothing
C5_SwitchFailsUnchanged ==
    [][/\ Ran("switchWorkingTab", TRUE) =>
            \A c \in ContextIndexes, t \in TabIndexes, cur \in PageTypes, next \in PageTypes :
                SwitchWorkingTabStep(c, t, cur, next) => ~SwitchMustFail(c, t, next)
       /\ Ran("switchWorkingTab", FALSE) => UNCHANGED <<workingTab, pageTypes>>]_vars

C5_Witness ==
    /\ last = [op |-> "switchWorkingTab", ok |-> FALSE]
    /\ rejected
    /\ Len(Flatten(browser)) >= 2
    /\ workingTab # NoTab
    /\ pageTypes # << >>

----------------------------------------------------------------------------
(* C6: after a successful openNewTabInCurrentContext(currentPageType) the    *)
(* context of the tab left has one more tab, the new tab is its last and is  *)
(* the working tab with "Blank" recorded, currentPageType is recorded for    *)
(* the tab left, and there are as many contexts as before.                   *)

C6_OpenInCurrentContext ==
    [][Ran("openNewTabInCurrentContext", TRUE) => \A cur \in PageTypes :
        OpenNewTabInCurrentContextStep(cur) =>
            LET c == workingContextIndex(World)
                t == workingTabIndex(World)
            IN  /\ IsWorkingTabAt(c, t)
                /\ Len(browser') = Len(browser)
                /\ Len(browser'[c + 1].pages) = Len(browser[c + 1].pages) + 1
                /\ \A i \in 1 .. Len(browser) :
                       i # c + 1 => Len(browser'[i].pages) = Len(browser[i].pages)
                /\ workingTab'.page = browser'[c + 1].pages[Len(browser'[c + 1].pages)]
                /\ workingTab'.context = browser'[c + 1].id
                /\ Recorded(pageTypes', c, Len(browser'[c + 1].pages) - 1) = "Blank"
                /\ Recorded(pageTypes', c, t) = cur]_vars

C6_Witness ==
    /\ last = [op |-> "openNewTabInCurrentContext", ok |-> TRUE]
    /\ workingTabIndex(World) = 1
    /\ Recorded(pageTypes, workingContextIndex(World), 0) = "A"

----------------------------------------------------------------------------
(* C7: after a successful openNewTabInNewContext, whatever the callback      *)
(* returned, the tab the step opened is the working tab, it is in the latest *)
(* context, and "Blank" is recorded for it.                                  *)

C7_OpenInNewContext ==
    [][Ran("openNewTabInNewContext", TRUE) => \A cb \in scope.callbacks, cur \in PageTypes \cup {Undefined} :
        OpenNewTabInNewContextStep(cb, cur) =>
            LET c == Len(browser') - 1
                t == Len(browser'[c + 1].pages) - 1
            IN  /\ Len(browser') = Len(browser) + 1
                /\ workingTab'.page = browser'[c + 1].pages[t + 1]
                /\ workingTab'.context = browser'[c + 1].id
                /\ Recorded(pageTypes', c, t) = "Blank"]_vars

----------------------------------------------------------------------------
(* C8: closeContext(i) fails when i is not the index of an open context or   *)
(* is the index of the working tab's context; the failure closes nothing and *)
(* leaves the page-type table and the working tab as they were.              *)

C8_CloseContextFailsUnchanged ==
    [][/\ Ran("closeContext", TRUE) =>
            \A c \in ContextIndexes :
                CloseContextStep(c) => (IsContextIndex(c) /\ ~IsWorkingContextAt(c))
       /\ Ran("closeContext", FALSE) => UNCHANGED <<browser, pageTypes, workingTab>>]_vars

C8_Witness ==
    /\ last = [op |-> "closeContext", ok |-> FALSE]
    /\ rejected
    /\ Len(browser) >= 2
    /\ workingTab # NoTab

----------------------------------------------------------------------------
(* C9: closeTab(c, t) fails when [c, t] is not an open tab or is the working *)
(* tab; the failure closes no page and leaves the page-type table and the    *)
(* working tab as they were.                                                 *)

C9_CloseTabFailsUnchanged ==
    [][/\ Ran("closeTab", TRUE) =>
            \A c \in ContextIndexes, t \in TabIndexes :
                CloseTabStep(c, t) => (IsTabIndex(c, t) /\ ~IsWorkingTabAt(c, t))
       /\ Ran("closeTab", FALSE) => UNCHANGED <<browser, pageTypes, workingTab>>]_vars

C9_Witness ==
    /\ last = [op |-> "closeTab", ok |-> FALSE]
    /\ rejected
    /\ Len(Flatten(browser)) >= 2
    /\ workingTab # NoTab

----------------------------------------------------------------------------
(* C10: after a successful closeTab(c, t) every remaining tab has the page   *)
(* type it had, found at the tab's new index: the tabs of context c after t  *)
(* move down by one, every other tab stays where it was.                     *)

C10_CloseTabKeepsOtherTypes ==
    [][Ran("closeTab", TRUE) => \A c \in ContextIndexes, t \in TabIndexes :
        CloseTabStep(c, t) =>
            \A c2 \in 0 .. (Len(browser) - 1) : \A t2 \in 0 .. (Len(browser[c2 + 1].pages) - 1) :
                <<c2, t2>> # <<c, t>> =>
                    Recorded(pageTypes', c2, IF c2 = c /\ t2 > t THEN t2 - 1 ELSE t2)
                        = Recorded(pageTypes, c2, t2)]_vars

----------------------------------------------------------------------------
(* C11: after a successful closeContext(i) context i and its tabs are closed *)
(* and the other contexts are open with the tabs they had, the row of the    *)
(* page-type table at i is gone, the types recorded at the index of every    *)
(* other context are afterwards recorded at that context's new index (one    *)
(* less for the contexts after i), and the working tab is the page it was    *)
(* and is open.                                                              *)

\* the index after closeContext(i) of what was at index c
AfterClose(i, c) == IF c > i THEN c - 1 ELSE c

\* the place among all open pages, after closeContext(i), of the page that was at place p
PlaceAfterClose(i, p) ==
    IF p >= Before(browser, i + 1) + Len(browser[i + 1].pages)
    THEN p - Len(browser[i + 1].pages)
    ELSE p

C11_CloseContextEffect ==
    [][Ran("closeContext", TRUE) => \A i \in ContextIndexes :
        CloseContextStep(i) =>
            /\ IsContextIndex(i)
            /\ Len(browser') = Len(browser) - 1
            /\ \A c \in 0 .. (Len(browser) - 1) :
                c # i => Len(browser'[AfterClose(i, c) + 1].pages) = Len(browser[c + 1].pages)
            /\ HasRow(pageTypes, i) => Len(pageTypes') = Len(pageTypes) - 1
            /\ \A c \in 0 .. Len(pageTypes) : \A t \in TabIndexes :
                c # i => Recorded(pageTypes', AfterClose(i, c), t) = Recorded(pageTypes, c, t)
            /\ workingTab.page \in OpenPages(browser)
            /\ workingTab.page \notin {browser[i + 1].pages[t] : t \in 1 .. Len(browser[i + 1].pages)}
            /\ workingTab'.page = PlaceAfterClose(i, workingTab.page)
            /\ workingTab'.page \in OpenPages(browser')]_vars

\* a context was closed, and a context with a recorded page type is left
C11_Witness ==
    /\ last = [op |-> "closeContext", ok |-> TRUE]
    /\ ~rejected
    /\ Len(browser) >= 1
    /\ workingTab.page \in OpenPages(browser)
    /\ Recorded(pageTypes, 0, 0) # Undefined

----------------------------------------------------------------------------
(* C12: when a call of openNewContext goes on with its new context, the     *)
(* context is put at the end of the persistent contexts and is the focused  *)
(* one; a switchWorkingContext(i) that succeeds makes the context at place  *)
(* i of the persistent contexts the focused one; and no operation of the    *)
(* request helper takes a persistent context from its place.                *)

C12_PersistentContextsKeepTheirPlace ==
    [][/\ Len(requestContexts') >= Len(requestContexts)
       /\ SubSeq(requestContexts', 1, Len(requestContexts)) = requestContexts
       /\ \A k \in 1 .. Len(opening) :
            \A context \in 0 .. MaxRequestContexts :
                OpenNewContextReturns(k, context) =>
                    /\ requestContexts' = Append(requestContexts, context)
                    /\ workingRequestContext' = context
       /\ \A i \in RequestContextIndexes :
            (SwitchWorkingContextStep(i) /\ workingRequestContext' # workingRequestContext) =>
                /\ i \in 0 .. (Len(requestContexts) - 1)
                /\ workingRequestContext' = requestContexts[i + 1]
                /\ requestContexts' = requestContexts]_vars

\* the focused context is a persistent one opened before another persistent one
C12_Witness ==
    /\ Len(requestContexts) >= 3
    /\ workingRequestContext = requestContexts[1]
    /\ \A i \in 2 .. Len(requestContexts) : requestContexts[i] # requestContexts[1]
    /\ throwAwayContexts # << >>

----------------------------------------------------------------------------
(* C13: within a test, once openNewTabInNewContext has succeeded, the       *)
(* working tab is after every step, successful or failed, an open tab of an *)
(* open context: a successful openNewTabInNewContext leaves it so, and no   *)
(* step of the test that finds it so leaves it otherwise.                   *)

WorkingTabIsOpen(b, tab) ==
    \E c \in 1 .. Len(b) :
        /\ b[c].id = tab.context
        /\ \E t \in 1 .. Len(b[c].pages) : b[c].pages[t] = tab.page

C13_WorkingTabStaysOpen ==
    [][(phase = "test" /\ phase' = "test") =>
        /\ Ran("openNewTabInNewContext", TRUE) => WorkingTabIsOpen(browser', workingTab')
        /\ WorkingTabIsOpen(browser, workingTab) => WorkingTabIsOpen(browser', workingTab')
        /\ browser' # << >> => WorkingTabIsOpen(browser', workingTab')]_vars

\* a tab was closed, or a step failed, with several tabs open
C13_Witness ==
    /\ phase = "test"
    /\ last.op \in {"closeTab", "closeContext", "switchWorkingTab"}
    /\ Len(Flatten(browser)) >= 2
    /\ WorkingTabIsOpen(browser, workingTab)

----------------------------------------------------------------------------
(* C14: within a test, after every step that completed, the page-type table *)
(* has one row for each open context, in the order of the contexts, and the *)
(* row of a context has a defined page type for each open tab of the        *)
(* context, by the tab's index, and for nothing else.                       *)

Mirrors(b, pt) ==
    /\ Len(pt) = Len(b)
    /\ \A c \in 1 .. Len(b) :
        /\ DOMAIN pt[c] = 0 .. (Len(b[c].pages) - 1)
        /\ \A t \in DOMAIN pt[c] : pt[c][t] # Undefined

C14_PageTypesMirrorBrowser == (phase = "test" /\ ~rejected) => Mirrors(browser, pageTypes)

====
